---------------------------- MODULE Spec2Model ----------------------------
(***************************************************************************)
(* A model of the lightstep/varopt weighted reservoir sampler (Varopt),    *)
(* its large-item heap, and the operations around it.                      *)
(*                                                                         *)
(* float64 values are modelled as exact rationals extended with +Inf,      *)
(* -Inf and NaN; rounding of finite values is not modelled.                *)
(***************************************************************************)
EXTENDS Integers, Sequences, FiniteSets, Bags, TLC

\* ------------------------------------------------------------------ bounds

\* Largest capacity a sampler is constructed with.
MaxCap == 2
\* Number of accepted Add calls in one behaviour, over all samplers.
MaxAdds == 4
\* Number of accepted Add calls in one behaviour of two samplers.
MaxCopyAdds == 3
\* Number of Reset and CopyFrom calls in one behaviour.
MaxOps == 2
\* The random source's Float64 yields a multiple of 1/RDen in [0, 1).
RDen == 4
\* Longest run of 0.0 values the random source yields in a row.
MaxZeroRun == 1
\* Largest capacity an unweighted reservoir is constructed with.
MaxSimpleCap == 2
\* Number of Add calls on one unweighted reservoir.
MaxObserved == 3
\* Number of accepted Add calls in one behaviour with accessor calls.
MaxReadAdds == 3
\* Largest number of items the heap under test holds.
MaxHeap == 5
\* Number of Add calls on the sampler whose Add runs statement by statement.
MaxStepAdds == 4
\* Largest sample size of a stream's complete window.
MaxCompleteSize == 2
\* Number of Add calls on one stream, and of Quantile calls.
MaxStreamAdds == 4
MaxQuantiles == 2
\* Number of add calls on a complete window on its own.
MaxWindowAdds == 4

Min(a, b) == IF a < b THEN a ELSE b

\* ------------------------------------------------------------------ float64

RECURSIVE GCD(_, _)
GCD(a, b) == IF b = 0 THEN a ELSE GCD(b, a % b)

Abs(n) == IF n < 0 THEN -n ELSE n

\* Go's integer division truncates toward zero.
GoDiv(a, b) == IF a >= 0 THEN a \div b ELSE -((-a) \div b)

\* A finite value n/d in lowest terms with d > 0.
Fin(n, d) ==
    LET g == GCD(Abs(n), Abs(d))
        s == IF d < 0 THEN -1 ELSE 1
    IN [k |-> "fin", n |-> (s * n) \div g, d |-> (s * d) \div g]

NaN == [k |-> "nan", n |-> 0, d |-> 1]
PInf == [k |-> "inf", n |-> 1, d |-> 1]
NInf == [k |-> "inf", n |-> -1, d |-> 1]
FromInt(n) == [k |-> "fin", n |-> n, d |-> 1]
Zero == FromInt(0)
One == FromInt(1)

IsNaN(a) == a.k = "nan"
IsInf(a, sign) == a.k = "inf" /\ (sign = 0 \/ (sign > 0 /\ a.n > 0) \/ (sign < 0 /\ a.n < 0))
Sgn(a) == IF a.n > 0 THEN 1 ELSE IF a.n < 0 THEN -1 ELSE 0
InfOf(s) == IF s > 0 THEN PInf ELSE NInf

FNeg(a) == IF a.k = "nan" THEN NaN ELSE [a EXCEPT !.n = -a.n]

FAdd(a, b) ==
    IF a.k = "nan" \/ b.k = "nan" THEN NaN
    ELSE IF a.k = "inf" /\ b.k = "inf" THEN (IF a.n = b.n THEN a ELSE NaN)
    ELSE IF a.k = "inf" THEN a
    ELSE IF b.k = "inf" THEN b
    ELSE Fin(a.n * b.d + b.n * a.d, a.d * b.d)

FSub(a, b) == FAdd(a, FNeg(b))

FMul(a, b) ==
    IF a.k = "nan" \/ b.k = "nan" THEN NaN
    ELSE IF a.k = "inf" \/ b.k = "inf"
         THEN (IF Sgn(a) = 0 \/ Sgn(b) = 0 THEN NaN ELSE InfOf(Sgn(a) * Sgn(b)))
    ELSE Fin(a.n * b.n, a.d * b.d)

\* Division; a zero divisor is +0 (no operation of the sampler yields -0).
FDiv(a, b) ==
    IF a.k = "nan" \/ b.k = "nan" THEN NaN
    ELSE IF a.k = "inf" THEN (IF b.k = "inf" THEN NaN
                              ELSE InfOf(IF Sgn(b) < 0 THEN -Sgn(a) ELSE Sgn(a)))
    ELSE IF b.k = "inf" THEN Zero
    ELSE IF b.n = 0 THEN (IF a.n = 0 THEN NaN ELSE InfOf(Sgn(a)))
    ELSE Fin(a.n * b.d, a.d * b.n)

\* Comparisons: every comparison with NaN is false.
FLt(a, b) ==
    IF a.k = "nan" \/ b.k = "nan" THEN FALSE
    ELSE IF a.k = "inf" THEN a.n < 0 /\ ~(b.k = "inf" /\ b.n < 0)
    ELSE IF b.k = "inf" THEN b.n > 0
    ELSE a.n * b.d < b.n * a.d

FEq(a, b) == a.k # "nan" /\ b.k # "nan" /\ a = b
FLe(a, b) == FLt(a, b) \/ FEq(a, b)
FGt(a, b) == FLt(b, a)
FGe(a, b) == FLe(b, a)


\* ------------------------------------------------------------------ largeHeap

\* Slices are 0-indexed in the source and 1-indexed here.
At(l, i) == l[i + 1]
Swap(l, i, j) == [l EXCEPT ![i + 1] = l[j + 1], ![j + 1] = l[i + 1]]

\* The body of heap.up(): sift the item at index j towards the root.
upOnce(l, j) ==
    LET i == GoDiv(j - 1, 2)
    IN IF i = j \/ FGe(At(l, j).weight, At(l, i).weight)
       THEN l
       ELSE Swap(l, i, j)
RECURSIVE up(_, _)
up(l, j) ==
    LET i == GoDiv(j - 1, 2)
    IN IF i = j \/ FGe(At(l, j).weight, At(l, i).weight)
       THEN l
       ELSE up(Swap(l, i, j), i)

push(lp, v) ==
    LET l == Append(lp, v)
        n == Len(l) - 1
    IN up(l, n)

\* The body of heap.down(): sift the item at index i towards the leaves of l[0:n].
RECURSIVE downLeftOnly(_, _, _)
downLeftOnly(l, i, n) ==
    LET j == 2 * i + 1
    IN IF j >= n \/ j < 0 \/ FGe(At(l, j).weight, At(l, i).weight)
       THEN l
       ELSE downLeftOnly(Swap(l, i, j), j, n)
RECURSIVE down(_, _, _)
down(l, i, n) ==
    LET j1 == 2 * i + 1
    IN IF j1 >= n \/ j1 < 0
       THEN l
       ELSE LET j2 == j1 + 1
                j == IF j2 < n /\ FLt(At(l, j2).weight, At(l, j1).weight) THEN j2 ELSE j1
            IN IF FGe(At(l, j).weight, At(l, i).weight)
               THEN l
               ELSE down(Swap(l, i, j), j, n)

\* pop returns the item at the root and the heap without it.
popDropsLast(lp) ==
    [result |-> lp[1], l |-> SubSeq(lp, 1, Len(lp) - 1)]
pop(lp) ==
    LET n == Len(lp) - 1
        l == SubSeq([lp EXCEPT ![1] = lp[n + 1]], 1, n)
    IN [result |-> lp[1], l |-> down(l, 0, n)]

\* container/heap over simpleHeap ([]float64), the reference of TestLargeHeap:
\* Less(i, j) is s[i] < s[j].
RECURSIVE heapUp(_, _)
heapUp(h, j) ==
    LET i == GoDiv(j - 1, 2)
    IN IF i = j \/ ~FLt(At(h, j), At(h, i))
       THEN h
       ELSE heapUp(Swap(h, i, j), i)

RECURSIVE heapDown(_, _, _)
heapDown(h, i, n) ==
    LET j1 == 2 * i + 1
    IN IF j1 >= n \/ j1 < 0
       THEN h
       ELSE LET j2 == j1 + 1
                j == IF j2 < n /\ FLt(At(h, j2), At(h, j1)) THEN j2 ELSE j1
            IN IF ~FLt(At(h, j), At(h, i))
               THEN h
               ELSE heapDown(Swap(h, i, j), j, n)

\* heap.Push(&S, v): S.Push(v); up(S, S.Len()-1)
heapPush(h, x) == heapUp(Append(h, x), Len(h))

\* heap.Pop(&S): n := S.Len()-1; S.Swap(0, n); down(S, 0, n); return S.Pop()
heapPop(h) ==
    LET n == Len(h) - 1
        d == heapDown(Swap(h, 0, n), 0, n)
    IN [result |-> d[n + 1], l |-> SubSeq(d, 1, n)]

\* ------------------------------------------------------------------ Varopt

\* The value Add returns when nothing was evicted.
NoItem == 0

\* A sampler as the code sees it: the struct's fields, slices as sequences.
New(capacity) ==
    [capacity |-> capacity, L |-> <<>>, T |-> <<>>, X |-> <<>>, tau |-> Zero,
     totalCount |-> 0, totalWeight |-> Zero]

Capacity(s) == s.capacity
Size(s) == Len(s.L) + Len(s.T)
TotalWeight(s) == s.totalWeight
TotalCount(s) == s.totalCount
Tau(s) == s.tau

GetOwnWeight(s, i) ==
    IF i < Len(s.L)
    THEN <<At(s.L, i).sample, At(s.L, i).weight>>
    ELSE <<At(s.T, i - Len(s.L)).sample, At(s.T, i - Len(s.L)).weight>>
Get(s, i) ==
    IF i < Len(s.L)
    THEN <<At(s.L, i).sample, At(s.L, i).weight>>
    ELSE <<At(s.T, i - Len(s.L)).sample, s.tau>>

GetOriginalWeightAdjusted(s, i) == Get(s, i)[2]
GetOriginalWeight(s, i) ==
    IF i < Len(s.L)
    THEN At(s.L, i).weight
    ELSE At(s.T, i - Len(s.L)).weight

\* The accessors, and what each returns: an integer or an item, a weight.
Accessors ==
    {"Capacity", "Size", "TotalCount", "TotalWeight", "Tau", "Get", "GetOriginalWeight"}

Read(acc, s, i) ==
    CASE acc = "Capacity" -> [item |-> Capacity(s), weight |-> Zero]
      [] acc = "Size" -> [item |-> Size(s), weight |-> Zero]
      [] acc = "TotalCount" -> [item |-> TotalCount(s), weight |-> Zero]
      [] acc = "TotalWeight" -> [item |-> NoItem, weight |-> TotalWeight(s)]
      [] acc = "Tau" -> [item |-> NoItem, weight |-> Tau(s)]
      [] acc = "Get" -> [item |-> Get(s, i)[1], weight |-> Get(s, i)[2]]
      [] acc = "GetOriginalWeight" -> [item |-> NoItem, weight |-> GetOriginalWeight(s, i)]

\* The receiver after an accessor returns: no accessor assigns a field.
AccessedCounts(s) == [s EXCEPT !.totalCount = s.totalCount + 1]
Accessed(s) == s

\* The weights the source's guard refuses: weight <= 0 || math.IsNaN(weight).
InvalidWeightGuardNoNaN(weight) == FLe(weight, Zero)
InvalidWeightGuard(weight) == FLe(weight, Zero) \/ IsNaN(weight)

\* The weights Add rejects with ErrInvalidWeight: non-positive, NaN or +Inf.
InvalidWeightNoInf(weight) == InvalidWeightGuard(weight)
InvalidWeight(weight) == InvalidWeightGuard(weight) \/ IsInf(weight, 1)

\* uniform(): the first non-zero value of the random source's Float64 sequence.
RECURSIVE uniform(_)
uniform(fs) == IF Head(fs) # Zero THEN Head(fs) ELSE uniform(Tail(fs))

\* for len(s.L) > 0 && W >= float64(len(s.T)+len(s.X)-1)*s.L[0].weight { pop }
RECURSIVE PopLoopStrict(_, _, _, _)
PopLoopStrict(L, X, W, lenT) ==
    IF Len(L) > 0 /\ FGt(W, FMul(FromInt(lenT + Len(X) - 1), At(L, 0).weight))
    THEN LET h == pop(L)
         IN PopLoopStrict(h.l, Append(X, h.result), FAdd(W, h.result.weight), lenT)
    ELSE [L |-> L, X |-> X, W |-> W]
RECURSIVE PopLoop(_, _, _, _)
PopLoop(L, X, W, lenT) ==
    IF Len(L) > 0 /\ FGe(W, FMul(FromInt(lenT + Len(X) - 1), At(L, 0).weight))
    THEN LET h == pop(L)
         IN PopLoop(h.l, Append(X, h.result), FAdd(W, h.result.weight), lenT)
    ELSE [L |-> L, X |-> X, W |-> W]

\* s.tau = W / float64(len(s.T)+len(s.X)-1)
NewTauNoMinusOne(W, lenT, lenX) == FDiv(W, FromInt(lenT + lenX))
NewTau(W, lenT, lenX) == FDiv(W, FromInt(lenT + lenX - 1))

\* Add from the threshold mass to the new threshold: L, X and tau before the
\* eviction draw.
RebalanceForgetsWeight(s, individual) ==
    LET W0 == FMul(s.tau, FromInt(Len(s.T)))
        large == FGt(individual.weight, s.tau)
        L1 == IF large THEN push(s.L, individual) ELSE s.L
        X1 == IF large THEN s.X ELSE Append(s.X, individual)
        p == PopLoop(L1, X1, W0, Len(s.T))
    IN [L |-> p.L, X |-> p.X, W |-> p.W,
        tau |-> NewTau(p.W, Len(s.T), Len(p.X))]
Rebalance(s, individual) ==
    LET W0 == FMul(s.tau, FromInt(Len(s.T)))
        large == FGt(individual.weight, s.tau)
        L1 == IF large THEN push(s.L, individual) ELSE s.L
        X1 == IF large THEN s.X ELSE Append(s.X, individual)
        W1 == IF large THEN W0 ELSE FAdd(W0, individual.weight)
        p == PopLoop(L1, X1, W1, Len(s.T))
    IN [L |-> p.L, X |-> p.X, W |-> p.W,
        tau |-> NewTau(p.W, Len(s.T), Len(p.X))]

\* for d < len(s.X) && r >= 0 { r -= (1 - wxd/s.tau); d++ }
RECURSIVE Walk(_, _, _, _)
Walk(X, tau, r, d) ==
    IF d < Len(X) /\ FGe(r, Zero)
    THEN Walk(X, tau, FSub(r, FSub(One, FDiv(At(X, d).weight, tau))), d + 1)
    ELSE [r |-> r, d |-> d]

\* Whether the eviction falls back to T, drawing rnd.Intn(len(s.T)).
DrawsFromT(X, tau, r) == ~FLt(Walk(X, tau, r, 0).r, Zero)

\* Swap-with-last removal: l[i], l[len(l)-1] = l[len(l)-1], l[i]; l = l[:len(l)-1].
\* removed is the item the truncation drops.
RemoveAtFirst(l, i) == [rest |-> Tail(l), removed |-> l[1]]
RemoveAtNoTruncate(l, i) ==
    [rest |-> Swap(l, i, Len(l) - 1), removed |-> At(l, Len(l) - 1)]
RemoveAtNoSwap(l, i) ==
    [rest |-> SubSeq(l, 1, Len(l) - 1), removed |-> At(l, i)]
RemoveAt(l, i) ==
    LET l2 == Swap(l, i, Len(l) - 1)
    IN [rest |-> SubSeq(l2, 1, Len(l) - 1), removed |-> At(l2, Len(l) - 1)]

\* The eviction: one item leaves X (by the walk) or T (by the index ti).
\* rnd.Intn(0) panics.
Evict(T, X, tau, r, ti) ==
    LET w == Walk(X, tau, r, 0)
    IN IF FLt(w.r, Zero)
       THEN LET x == RemoveAt(X, IF w.d < Len(X) THEN w.d ELSE Len(X) - 1)
            IN [T |-> T, X |-> x.rest, removed |-> x.removed, panic |-> FALSE]
       ELSE IF Len(T) = 0
            THEN [T |-> T, X |-> X, removed |-> [sample |-> NoItem, weight |-> Zero],
                  panic |-> TRUE]
            ELSE LET x == RemoveAt(T, ti)
                 IN [T |-> x.rest, X |-> X, removed |-> x.removed, panic |-> FALSE]

\* if s.Size() < s.capacity: the filling phase.
FillingOffByOne(s) == Size(s) <= s.capacity
FillingNever(s) == FALSE
Filling(s) == Size(s) < s.capacity

\* s.totalCount++; s.totalWeight += weight
CountedGrowsCapacity(s, weight) ==
    [s EXCEPT !.totalCount = s.totalCount + 1,
              !.totalWeight = FAdd(s.totalWeight, weight),
              !.capacity = s.capacity + 1]
CountedWeightOnly(s, weight) ==
    [s EXCEPT !.totalWeight = FAdd(s.totalWeight, weight)]
Counted(s, weight) ==
    [s EXCEPT !.totalCount = s.totalCount + 1,
              !.totalWeight = FAdd(s.totalWeight, weight)]

\* Add on an accepted weight: the sampler after the call and the item removed.
VaroptAddLeavesX(s, sample, weight, r, ti) ==
    LET individual == [sample |-> sample, weight |-> weight]
        counted == Counted(s, weight)
    IN IF Filling(s)
       THEN [s |-> [counted EXCEPT !.L = push(s.L, individual)],
             removed |-> NoItem, panic |-> FALSE]
       ELSE LET b == Rebalance(s, individual)
                e == Evict(s.T, b.X, b.tau, r, ti)
            IN [s |-> [counted EXCEPT !.L = b.L, !.T = e.T \o e.X, !.X = e.X,
                                      !.tau = b.tau],
                removed |-> e.removed.sample, panic |-> e.panic]
VaroptAdd(s, sample, weight, r, ti) ==
    LET individual == [sample |-> sample, weight |-> weight]
        counted == Counted(s, weight)
    IN IF Filling(s)
       THEN [s |-> [counted EXCEPT !.L = push(s.L, individual)],
             removed |-> NoItem, panic |-> FALSE]
       ELSE LET b == Rebalance(s, individual)
                e == Evict(s.T, b.X, b.tau, r, ti)
            IN IF e.panic
               THEN [s |-> [counted EXCEPT !.L = b.L, !.X = b.X, !.tau = b.tau],
                     removed |-> NoItem, panic |-> TRUE]
               ELSE [s |-> [counted EXCEPT !.L = b.L, !.T = e.T \o e.X, !.X = <<>>,
                                           !.tau = b.tau],
                     removed |-> e.removed.sample, panic |-> FALSE]

\* Reset clears the sample and the counters and keeps the capacity.
VaroptResetKeepsTau(s) ==
    [s EXCEPT !.L = <<>>, !.T = <<>>, !.X = <<>>, !.totalCount = 0, !.totalWeight = Zero]
VaroptReset(s) ==
    [s EXCEPT !.L = <<>>, !.T = <<>>, !.X = <<>>, !.tau = Zero,
              !.totalCount = 0, !.totalWeight = Zero]

\* ------------------------------------------------------------------ Simple

\* NewSimple(capacity, rnd): the unweighted reservoir (Algorithm R).
NewSimple(capacity) == [capacity |-> capacity, observed |-> 0, buffer |-> <<>>]

SimpleSize(s) == Len(s.buffer)
SimpleCount(s) == s.observed
SimpleGet(s, i) == At(s.buffer, i)

\* Weight(): float64(s.observed) / float64(s.Size())
SimpleWeightUnit(s) == One
SimpleWeight(s) == FDiv(FromInt(s.observed), FromInt(SimpleSize(s)))

\* Add(item); index is what s.rnd.Intn(s.observed) yields when it is called.
SimpleAddBelowObserved(s, item, index) ==
    LET o == [s EXCEPT !.observed = s.observed + 1]
    IN IF Len(s.buffer) < s.capacity
       THEN [o EXCEPT !.buffer = Append(s.buffer, item)]
       ELSE IF index < o.observed
            THEN [o EXCEPT !.buffer[(index % s.capacity) + 1] = item]
            ELSE o
SimpleAddAppendsWhenFull(s, item, index) ==
    LET o == [s EXCEPT !.observed = s.observed + 1]
    IN IF Len(s.buffer) <= s.capacity
       THEN [o EXCEPT !.buffer = Append(s.buffer, item)]
       ELSE o
SimpleAddOverwritesAll(s, item, index) ==
    LET o == [s EXCEPT !.observed = s.observed + 1]
    IN IF Len(s.buffer) < s.capacity
       THEN [o EXCEPT !.buffer = Append(s.buffer, item)]
       ELSE IF index < s.capacity
            THEN [o EXCEPT !.buffer = [n \in 1..Len(s.buffer) |-> item]]
            ELSE o
SimpleAdd(s, item, index) ==
    LET o == [s EXCEPT !.observed = s.observed + 1]
    IN IF Len(s.buffer) < s.capacity
       THEN [o EXCEPT !.buffer = Append(s.buffer, item)]
       ELSE IF index < s.capacity
            THEN [o EXCEPT !.buffer[index + 1] = item]
            ELSE o

\* ------------------------------------------------------------------ state

\* The sampler instances of a behaviour (TestReset's v and v2, TestEject's pair).
Inst == {1, 2}

VARIABLES
    v,        \* v[i]: sampler i's struct; each slice field a header [arr, len]
    mem,      \* mem[a]: the contents of backing array a
    last,     \* the last call made and what it returned
    offered,  \* offered[k]: the weight item k was accepted with (history)
    copied,   \* the receiver of the latest CopyFrom, 0 before any (history)
    ops,      \* number of Reset and CopyFrom calls made (history)
    accepted, \* accepted[i]: the weights sampler i's counters stand for: those
              \* accepted since its construction or last Reset (history)
    simple,   \* simple[k]: unweighted reservoir k
    pos,      \* pos[k]: how many of reservoir k's items were re-offered to sampler 1
    slast     \* the last Add on a reservoir and the index it drew (history)

simpleVars == <<simple, pos, slast>>

\* A large-item heap on its own, next to the reference heap (TestLargeHeap).
VARIABLES
    heapL,    \* the largeHeap under test
    heapS,    \* the reference heap of the same weights
    hlast     \* the last operation on the heaps and what the two Pops returned;
              \* held: the items pushed and not yet returned by a pop, net: the
              \* number of pushes less the number of pops (history)

heapVars == <<heapL, heapS, hlast>>

\* One sampler whose Add runs statement by statement.
VARIABLES
    frame     \* the sampler, and the locals and position of the Add in progress

stepVars == <<frame>>

\* A tdigest Stream: its two windows, each around a sampler of its own.  The
\* T-digest itself (buffer, tinput, digest) is its consumer and is not part of
\* the state: digest.Probability is any value of Probabilities.
VARIABLES
    stream,   \* the Stream struct: Config, cycle, flushed, current, complete
    qlast     \* the last call on the stream or its complete window (history)

streamVars == <<stream, qlast>>
vars == <<v, mem, last, offered, copied, ops, accepted, simpleVars, heapVars, stepVars,
          streamVars>>

ArrOf(i, f) == 3 * (i - 1) + f
Arrays == {ArrOf(i, f) : i \in Inst, f \in 1..3}

\* The elements a slice header denotes.
Slice(sl) == SubSeq(mem[sl.arr], 1, sl.len)

\* A backing array after its first Len(new) elements are overwritten.
WriteBack(old, new) == new \o SubSeq(old, Len(new) + 1, Len(old))

\* The sampler with struct h over the memory m, as the code sees it.
ViewOf(h, m) ==
    [capacity |-> h.capacity, L |-> SubSeq(m[h.L.arr], 1, h.L.len),
     T |-> SubSeq(m[h.T.arr], 1, h.T.len), X |-> SubSeq(m[h.X.arr], 1, h.X.len),
     tau |-> h.tau, totalCount |-> h.totalCount, totalWeight |-> h.totalWeight]

\* Sampler i as the code sees it.
View(i) == ViewOf(v[i], mem)

\* The struct of sampler i holding the value s in its own slices.
Header(h, s) ==
    [capacity |-> s.capacity, tau |-> s.tau, totalCount |-> s.totalCount,
     totalWeight |-> s.totalWeight,
     L |-> [arr |-> h.L.arr, len |-> Len(s.L)],
     T |-> [arr |-> h.T.arr, len |-> Len(s.T)],
     X |-> [arr |-> h.X.arr, len |-> Len(s.X)]]

\* Memory after the struct h is made to hold the sequences L, T and X.
Written(h, L, T, X) ==
    [a \in Arrays |->
        IF a = h.L.arr THEN WriteBack(mem[a], L)
        ELSE IF a = h.T.arr THEN WriteBack(mem[a], T)
        ELSE IF a = h.X.arr THEN WriteBack(mem[a], X)
        ELSE mem[a]]

Call(op, i, from, item, weight, eject, err) ==
    [op |-> op, inst |-> i, from |-> from, item |-> item, weight |-> weight,
     eject |-> eject, err |-> err]

\* ------------------------------------------------------------------ inputs

\* The weights callers offer: valid ones, and one of each kind Add refuses.
ValidWeights == {FromInt(1), FromInt(2), FromInt(3)}
BadWeights == {NaN, PInf, Zero, FromInt(-1)}
InputWeights == ValidWeights \cup BadWeights

ZeroRun(z) == [k \in 1..z |-> Zero]
\* What rnd.Float64() yields until its first non-zero value.
FloatRuns == {ZeroRun(z) \o <<Fin(k, RDen)>> : z \in 0..MaxZeroRun, k \in 1..(RDen - 1)}

\* What rnd.Intn(len(s.T)) may yield where Add reaches it.
IntnDraws(s, individual, r) ==
    LET b == Rebalance(s, individual)
    IN IF DrawsFromT(b.X, b.tau, r) /\ Len(s.T) > 0 THEN 0..(Len(s.T) - 1) ELSE {0}

\* The probability of what an Add evicts, over the draws r := s.uniform() and
\* ti := s.rnd.Intn(len(s.T)), both uniform.  The weights offered are whole
\* numbers, so with W = p/q in lowest terms every sum of terms 1 - wxd/tau the
\* walk compares r with is a multiple of 1/p: the walk ends the same way for
\* every r inside one cell (j/p, (j+1)/p), and the cell's midpoint stands for it.
Cells(s, individual) == Rebalance(s, individual).W.n
CellDraw(j, n) == Fin(2 * j + 1, 2 * n)

\* The probability that Add(sample, weight) on s draws r in cell j and removes
\* item x.
CellMass(s, sample, weight, x, j) ==
    LET individual == [sample |-> sample, weight |-> weight]
        n == Cells(s, individual)
        r == CellDraw(j, n)
        D == IntnDraws(s, individual, r)
        hits == {ti \in D : VaroptAdd(s, sample, weight, r, ti).removed = x}
    IN Fin(Cardinality(hits), n * Cardinality(D))

\* The probability that Add(sample, weight) on s removes item x: the sum of
\* the cells j..Cells-1.
RECURSIVE PrRemovedFrom(_, _, _, _, _)
PrRemovedFrom(s, sample, weight, x, j) ==
    IF j >= Cells(s, [sample |-> sample, weight |-> weight])
    THEN Zero
    ELSE FAdd(CellMass(s, sample, weight, x, j),
              PrRemovedFrom(s, sample, weight, x, j + 1))

PrRemoved(s, sample, weight, x) == PrRemovedFrom(s, sample, weight, x, 0)

\* ------------------------------------------------------------------ actions

\* New(capacity, rnd) for sampler i: the zero struct, its slices empty.
NewHeader(i, capacity) ==
    [capacity |-> capacity, tau |-> Zero, totalCount |-> 0, totalWeight |-> Zero,
     L |-> [arr |-> ArrOf(i, 1), len |-> 0],
     T |-> [arr |-> ArrOf(i, 2), len |-> 0],
     X |-> [arr |-> ArrOf(i, 3), len |-> 0]]

\* The state after construction: sampler i built with capacity caps[i].
Constructed(caps) ==
    /\ v = [i \in Inst |-> NewHeader(i, caps[i])]
    /\ mem = [a \in Arrays |-> <<>>]
    /\ last = Call("New", 1, 0, NoItem, Zero, NoItem, "")
    /\ offered = <<>>
    /\ copied = 0
    /\ ops = 0
    /\ accepted = [i \in Inst |-> <<>>]

\* The unweighted reservoirs of a behaviour (testUnbiased's blocks).
Res == {1, 2}

\* The k-th reservoir's n-th item.
ItemOf(k, n) == 100 * k + n

\* The state after construction of the reservoirs, k with capacity caps[k].
SimpleConstructed(caps) ==
    /\ simple = [k \in Res |-> NewSimple(caps[k])]
    /\ pos = [k \in Res |-> 0]
    /\ slast = [res |-> 0, item |-> NoItem, index |-> -1]

\* var L largeHeap; var S simpleHeap
HeapConstructed ==
    /\ heapL = <<>>
    /\ heapS = <<>>
    /\ hlast = [op |-> "new", l |-> Zero, s |-> Zero, held |-> EmptyBag, net |-> 0]

\* New(capacity, rnd), no Add called yet.
StepConstructed(capacity) ==
    frame = [pc |-> "idle", s |-> New(capacity), start |-> New(capacity),
             sample |-> NoItem, weight |-> Zero, W |-> Zero,
             r |-> Zero, r0 |-> Zero, d |-> 0, ti |-> 0,
             lenL |-> 0, pops |-> 0, walks |-> 0, zeros |-> 0,
             calls |-> 0, err |-> ""]

\* Add as the stream's windows call it: the item evicted, and whether the
\* weight was refused.
AddReturned(res) == [s |-> res.s, eject |-> res.removed, err |-> FALSE]
VaroptAddChecked(s, sample, weight, r, ti) ==
    IF InvalidWeight(weight)
    THEN [s |-> s, eject |-> NoItem, err |-> TRUE]
    ELSE AddReturned(VaroptAdd(s, sample, weight, r, ti))

\* The draws (r, ti) an Add on s may make.
AddDraws(s) ==
    {uniform(fs) : fs \in FloatRuns} \X (0..(IF Len(s.T) > 0 THEN Len(s.T) - 1 ELSE 0))

\* newCurrentWindow: temporary has length 0 and capacity windowSize.
NewCurrentWindow(sampleSize, windowSize) ==
    [sample |-> New(sampleSize), temporary |-> <<>>, cap |-> windowSize]

\* currentWindow.add: the sampler is offered &v.temporary[len(v.temporary)-1],
\* here the position of the value in temporary.
CurrentAdded(cur, value, res) ==
    [w |-> [cur EXCEPT !.temporary = Append(cur.temporary, value), !.sample = res.s],
     err |-> res.err]
CurrentAdd(cur, value, weight, r, ti) ==
    CurrentAdded(cur, value,
                 VaroptAddChecked(cur.sample, Len(cur.temporary) + 1, weight, r, ti))

\* currentWindow.full
CurrentFull(cur) == Len(cur.temporary) = cur.cap

\* currentWindow.restart
Restart(cur) == [cur EXCEPT !.temporary = <<>>, !.sample = VaroptReset(cur.sample)]

\* newCompleteWindow: sampleSize + 1 slots, all of them on the free list.
\* A *float64 is the number of the slot it points to.
NewCompleteWindow(sampleSize) ==
    [sample |-> New(sampleSize),
     temporary |-> [k \in 1..(sampleSize + 1) |-> 0],
     freelist |-> [k \in 1..(sampleSize + 1) |-> k]]

\* The window after v.sample.Add(data, weight) returned res: the slot goes back
\* on the free list on an error, the evicted item's slot does otherwise.
RecycledKeepsEjected(cw, value, data, freelist, res) ==
    [w |-> [cw EXCEPT !.temporary[data] = value,
                      !.sample = res.s,
                      !.freelist = IF res.err THEN Append(freelist, data) ELSE freelist],
     err |-> res.err, panic |-> FALSE]
Recycled(cw, value, data, freelist, res) ==
    [w |-> [cw EXCEPT !.temporary[data] = value,
                      !.sample = res.s,
                      !.freelist = IF res.err THEN Append(freelist, data)
                                   ELSE IF res.eject # NoItem
                                        THEN Append(freelist, res.eject)
                                        ELSE freelist],
     err |-> res.err, panic |-> FALSE]

\* completeWindow.add.  v.freelist[-1] panics.
CompleteAdd(cw, value, weight, r, ti) ==
    IF Len(cw.freelist) = 0
    THEN [w |-> cw, err |-> FALSE, panic |-> TRUE]
    ELSE Recycled(cw, value, At(cw.freelist, Len(cw.freelist) - 1),
                  SubSeq(cw.freelist, 1, Len(cw.freelist) - 1),
                  VaroptAddChecked(cw.sample, At(cw.freelist, Len(cw.freelist) - 1),
                                   weight, r, ti))

\* currentWindow.get for every i below current.size(): the value pointed to
\* and freq := weight / GetOriginalWeight(i).
CurrentItems(cur) ==
    [n \in 1..Size(cur.sample) |->
        [value |-> cur.temporary[Get(cur.sample, n - 1)[1]],
         weight |-> FDiv(Get(cur.sample, n - 1)[2], GetOriginalWeight(cur.sample, n - 1))]]

\* for i := 0; i < s.current.size(); i++ { s.complete.add(value, freq) }: the
\* complete windows the loop may end with, over the draws of each add.
RECURSIVE OfferAll(_, _)
OfferAll(outcomes, items) ==
    IF items = <<>> THEN outcomes
    ELSE OfferAll(UNION {{[w |-> a.w, panic |-> o.panic \/ a.panic] :
                              a \in {CompleteAdd(o.w, Head(items).value, Head(items).weight,
                                                  draw[1], draw[2]) :
                                         draw \in AddDraws(o.w.sample)}} : o \in outcomes},
                  Tail(items))

\* NewStream(NewConfig(quality, currentSize, completeSize, windowSize), rnd)
StreamConstructed(currentSize, completeSize, windowSize) ==
    /\ stream = [currentSize |-> currentSize, completeSize |-> completeSize,
                 windowSize |-> windowSize, cycle |-> 0, flushed |-> FALSE,
                 current |-> NewCurrentWindow(currentSize, windowSize),
                 complete |-> NewCompleteWindow(completeSize)]
    /\ qlast = [op |-> "NewStream", err |-> "", adds |-> 0, quantiles |-> 0]

\* Both samplers are constructed with the same capacity, as CopyFrom requires.
Init ==
    /\ \E c \in 1..MaxCap : Constructed([i \in Inst |-> c])
    /\ SimpleConstructed([k \in Res |-> 1])
    /\ HeapConstructed
    /\ StepConstructed(1)
    /\ StreamConstructed(1, 1, 1)

\* The two heaps, empty.
InitHeap ==
    /\ Constructed([i \in Inst |-> 1])
    /\ SimpleConstructed([k \in Res |-> 1])
    /\ HeapConstructed
    /\ StepConstructed(1)
    /\ StreamConstructed(1, 1, 1)

\* A sampler and reservoirs of any capacities.
InitSimple ==
    /\ \E c \in 1..MaxCap : Constructed([i \in Inst |-> c])
    /\ \E caps \in [Res -> 1..MaxSimpleCap] : SimpleConstructed(caps)
    /\ HeapConstructed
    /\ StepConstructed(1)
    /\ StreamConstructed(1, 1, 1)

\* The item Add hands back: the one the eviction removed, NoItem while filling.
EjectOf(res) == res.removed

\* The sampler's state after an accepted Add on sampler i.
Stored(i, sample, weight, res) ==
    /\ v' = [v EXCEPT ![i] = Header(v[i], res.s)]
    /\ mem' = Written(v[i], res.s.L, res.s.T, res.s.X)
    /\ last' = Call("Add", i, 0, sample, weight, EjectOf(res),
                    IF res.panic THEN "panic" ELSE "")
    /\ offered' = Append(offered, weight)
    /\ accepted' = [accepted EXCEPT ![i] = Append(accepted[i], weight)]
    /\ UNCHANGED <<copied, ops>>

\* The state after an accepted Add on sampler i.
Accepted(i, sample, weight, res) ==
    /\ Stored(i, sample, weight, res)
    /\ UNCHANGED <<simpleVars, heapVars, stepVars, streamVars>>

\* The state after a rejected Add: ErrInvalidWeight is returned, nothing changes.
Rejected(i, sample, weight) ==
    /\ last' = Call("Add", i, 0, sample, weight, NoItem, "ErrInvalidWeight")
    /\ UNCHANGED <<v, mem, offered, copied, ops, accepted, simpleVars, heapVars, stepVars, streamVars>>

Add(i) ==
    \E weight \in InputWeights :
        LET s == View(i)
            sample == Len(offered) + 1
        IN IF InvalidWeight(weight)
           THEN Rejected(i, sample, weight)
           ELSE /\ Len(offered) < MaxAdds
                /\ IF Filling(s)
                   THEN Accepted(i, sample, weight,
                                 VaroptAdd(s, sample, weight, One, 0))
                   ELSE \E r \in {uniform(fs) : fs \in FloatRuns} :
                          \E ti \in IntnDraws(s, [sample |-> sample, weight |-> weight], r) :
                             Accepted(i, sample, weight,
                                      VaroptAdd(s, sample, weight, r, ti))

Reset(i) ==
    /\ ops < MaxOps
    /\ v' = [v EXCEPT ![i] = Header(v[i], VaroptReset(View(i)))]
    /\ last' = Call("Reset", i, 0, NoItem, Zero, NoItem, "")
    /\ ops' = ops + 1
    /\ accepted' = [accepted EXCEPT ![i] = <<>>]
    /\ UNCHANGED <<mem, offered, copied, simpleVars, heapVars, stepVars, streamVars>>

\* The receiver's slice after CopyFrom: its own backing array, the source's length.
CopySliceKeepLen(own, from) == own
CopySliceShared(own, from) == from
CopySlice(own, from) == [arr |-> own.arr, len |-> from.len]

CopyFrom(dst, src) ==
    /\ ops < MaxOps
    /\ dst # src
    /\ v[dst].capacity = v[src].capacity
    /\ LET h == [v[src] EXCEPT !.capacity = v[dst].capacity,
                               !.L = CopySlice(v[dst].L, v[src].L),
                               !.T = CopySlice(v[dst].T, v[src].T),
                               !.X = CopySlice(v[dst].X, v[src].X)]
       IN /\ v' = [v EXCEPT ![dst] = h]
          /\ mem' = Written(h, Slice(v[src].L), Slice(v[src].T), Slice(v[src].X))
    /\ last' = Call("CopyFrom", dst, src, NoItem, Zero, NoItem, "")
    /\ copied' = dst
    /\ ops' = ops + 1
    /\ accepted' = [accepted EXCEPT ![dst] = accepted[src]]
    /\ UNCHANGED <<offered, simpleVars, heapVars, stepVars, streamVars>>

Next ==
    \/ Add(1)
    \/ Reset(1)

Spec == Init /\ [][Next]_vars

\* Both samplers in use, offered valid weights only (at most MaxCopyAdds of them).
NextCopy ==
    \/ \E i \in Inst : Len(offered) < MaxCopyAdds /\ Add(i) /\ offered' # offered
    \/ \E i \in Inst : Reset(i)
    \/ \E dst \in Inst, src \in Inst : CopyFrom(dst, src)

SpecCopy == Init /\ [][NextCopy]_vars

\* A call of one accessor on sampler i; Get and GetOriginalWeight take an
\* index below Size().
Access(i) ==
    \E acc \in Accessors :
        LET s == View(i)
            t == Accessed(s)
        IN \E n \in IF acc \in {"Get", "GetOriginalWeight"} THEN 0..(Size(s) - 1) ELSE {0} :
              /\ v' = [v EXCEPT ![i] = Header(v[i], t)]
              /\ mem' = Written(v[i], t.L, t.T, t.X)
              /\ last' = Call(acc, i, 0, Read(acc, s, n).item, Read(acc, s, n).weight,
                              NoItem, "")
              /\ UNCHANGED <<offered, copied, ops, accepted, simpleVars, heapVars, stepVars, streamVars>>

\* One sampler, its accessors called between Adds.
NextRead ==
    \/ Len(offered) < MaxReadAdds /\ Add(1)
    \/ Access(1)

SpecRead == Init /\ [][NextRead]_vars

\* ss.Add(s) on reservoir k, before any of its items is re-offered.
ReservoirAdd(k) ==
    /\ pos[k] = 0
    /\ simple[k].observed < MaxObserved
    /\ LET s == simple[k]
           item == ItemOf(k, s.observed + 1)
       IN \E index \in IF Len(s.buffer) < s.capacity THEN {-1} ELSE 0..s.observed :
             /\ simple' = [simple EXCEPT ![k] = SimpleAdd(s, item, index)]
             /\ slast' = [res |-> k, item |-> item, index |-> index]
    /\ UNCHANGED <<v, mem, last, offered, copied, ops, accepted, pos, heapVars, stepVars, streamVars>>

\* vsample.Add(ss.Get(i), weight) with weight = Count()/Size(): the next
\* retained item of reservoir k is offered to sampler 1.  The weight is at
\* least 1, so Add accepts it.
Reoffer(k) ==
    LET ss == simple[k]
        weight == SimpleWeight(ss)
        s == View(1)
    IN /\ pos[k] < SimpleSize(ss)
       /\ LET sample == SimpleGet(ss, pos[k])
          IN IF Filling(s)
             THEN Stored(1, sample, weight, VaroptAdd(s, sample, weight, One, 0))
             ELSE \E r \in {uniform(fs) : fs \in FloatRuns} :
                    \E ti \in IntnDraws(s, [sample |-> sample, weight |-> weight], r) :
                       Stored(1, sample, weight, VaroptAdd(s, sample, weight, r, ti))
       /\ pos' = [pos EXCEPT ![k] = pos[k] + 1]
       /\ UNCHANGED <<simple, slast, heapVars, stepVars, streamVars>>

NextSimple ==
    \/ \E k \in Res : ReservoirAdd(k)
    \/ \E k \in Res : Reoffer(k)

SpecSimple == InitSimple /\ [][NextSimple]_vars

\* The weights pushed on the heaps: the weights Add accepts and, as in
\* TestLargeHeap, values below zero.
HeapWeights == ValidWeights \cup {FromInt(-1)}

\* L.push(vsample{v, v}); heap.Push(&S, v)
HeapPush ==
    /\ Len(heapL) < MaxHeap
    /\ \E w \in HeapWeights :
          /\ heapL' = push(heapL, [sample |-> w.n, weight |-> w])
          /\ heapS' = heapPush(heapS, w)
          /\ hlast' = [op |-> "push", l |-> w, s |-> w,
                       held |-> hlast.held (+) SetToBag({[sample |-> w.n, weight |-> w]}),
                       net |-> hlast.net + 1]
    /\ UNCHANGED <<v, mem, last, offered, copied, ops, accepted, simpleVars, stepVars, streamVars>>

\* v1 := heap.Pop(&S); v2 := L.pop().weight
HeapPop ==
    /\ Len(heapS) > 0
    /\ Len(heapL) > 0
    /\ heapL' = pop(heapL).l
    /\ heapS' = heapPop(heapS).l
    /\ hlast' = [op |-> "pop", l |-> pop(heapL).result.weight, s |-> heapPop(heapS).result,
                 held |-> hlast.held (-) SetToBag({pop(heapL).result}),
                 net |-> hlast.net - 1]
    /\ UNCHANGED <<v, mem, last, offered, copied, ops, accepted, simpleVars, stepVars, streamVars>>

NextHeap ==
    \/ HeapPush
    \/ HeapPop

SpecHeap == InitHeap /\ [][NextHeap]_vars

\* ------------------------------------------------- Add, statement by statement

\* A sampler of any capacity whose Add runs statement by statement.
InitSteps ==
    /\ Constructed([i \in Inst |-> 1])
    /\ SimpleConstructed([k \in Res |-> 1])
    /\ HeapConstructed
    /\ \E c \in 1..MaxCap : StepConstructed(c)
    /\ StreamConstructed(1, 1, 1)

\* What one call of rnd.Float64() may yield.
Float64Draws == {Fin(k, RDen) : k \in 0..(RDen - 1)}

\* if r != 0.0 { return r }
ReturnedAlways(r) == TRUE
Returned(r) == r # Zero

\* len(s.L) > 0 && W >= float64(len(s.T)+len(s.X)-1)*s.L[0].weight
PopCond(s, W) ==
    Len(s.L) > 0 /\ FGe(W, FMul(FromInt(Len(s.T) + Len(s.X) - 1), At(s.L, 0).weight))

\* d < len(s.X) && r >= 0
WalkCond(s, r, d) == d < Len(s.X) /\ FGe(r, Zero)

\* Add(sample, weight) up to the pop loop: the weight check, the counters,
\* the filling phase (which returns) and the placement of the new item.
StepCall ==
    /\ frame.pc = "idle"
    /\ frame.calls < MaxStepAdds
    /\ \E weight \in InputWeights :
          LET s == frame.s
              sample == frame.calls + 1
              individual == [sample |-> sample, weight |-> weight]
              counted == Counted(s, weight)
              large == FGt(weight, s.tau)
              W0 == FMul(s.tau, FromInt(Len(s.T)))
              entered == [frame EXCEPT !.calls = sample, !.sample = sample,
                                       !.weight = weight, !.start = s,
                                       !.pops = 0, !.walks = 0, !.zeros = 0,
                                       !.d = 0, !.r = Zero, !.r0 = Zero, !.ti = 0,
                                       !.W = Zero, !.lenL = 0, !.err = ""]
          IN frame' =
                IF InvalidWeight(weight)
                THEN [entered EXCEPT !.err = "ErrInvalidWeight"]
                ELSE IF Filling(s)
                THEN [entered EXCEPT !.s = [counted EXCEPT !.L = push(s.L, individual)]]
                ELSE IF large
                THEN [entered EXCEPT !.s = [counted EXCEPT !.L = push(s.L, individual)],
                                     !.W = W0, !.pc = "pop",
                                     !.lenL = Len(s.L) + 1]
                ELSE [entered EXCEPT !.s = [counted EXCEPT !.X = Append(s.X, individual)],
                                     !.W = FAdd(W0, weight), !.pc = "pop",
                                     !.lenL = Len(s.L)]
    /\ UNCHANGED <<v, mem, last, offered, copied, ops, accepted, simpleVars, heapVars, streamVars>>

\* One test of the pop loop: an iteration, or the exit to s.tau = W / ....
StepPop ==
    /\ frame.pc = "pop"
    /\ LET s == frame.s
       IN frame' =
             IF PopCond(s, frame.W)
             THEN LET h == pop(s.L)
                  IN [frame EXCEPT !.s = [s EXCEPT !.L = h.l, !.X = Append(s.X, h.result)],
                                   !.W = FAdd(frame.W, h.result.weight),
                                   !.pops = frame.pops + 1]
             ELSE [frame EXCEPT !.s = [s EXCEPT !.tau = NewTau(frame.W, Len(s.T), Len(s.X))],
                                !.pc = "uniform"]
    /\ UNCHANGED <<v, mem, last, offered, copied, ops, accepted, simpleVars, heapVars, streamVars>>

\* One iteration of uniform(): r := s.rnd.Float64() yields f, which is
\* returned to Add (r := s.uniform(); d := 0) or discarded.
StepUniform(f) ==
    /\ frame.pc = "uniform"
    /\ frame' =
          IF Returned(f)
          THEN [frame EXCEPT !.r = f, !.r0 = f, !.d = 0, !.pc = "walk"]
          ELSE [frame EXCEPT !.zeros = Min(frame.zeros + 1, MaxZeroRun)]
    /\ UNCHANGED <<v, mem, last, offered, copied, ops, accepted, simpleVars, heapVars, streamVars>>

\* One test of the walk loop: an iteration, or the exit to if r < 0.
StepWalk ==
    /\ frame.pc = "walk"
    /\ LET s == frame.s
       IN IF WalkCond(s, frame.r, frame.d)
          THEN \E quotient \in {FDiv(At(s.X, frame.d).weight, s.tau)} :
               \E decrement \in {FSub(One, quotient)} :
               \E r \in {FSub(frame.r, decrement)} :
                  frame' = [frame EXCEPT !.r = r,
                                         !.d = frame.d + 1,
                                         !.walks = frame.walks + 1]
          ELSE frame' = [frame EXCEPT !.pc = "evict"]
    /\ UNCHANGED <<v, mem, last, offered, copied, ops, accepted, simpleVars, heapVars, streamVars>>

\* The removal and the rest of Add: s.T = append(s.T, s.X...); s.X = s.X[:0].
\* rnd.Intn(0) panics.
StepEvict ==
    /\ frame.pc = "evict"
    /\ LET s == frame.s
       IN IF FLt(frame.r, Zero)
          THEN LET x == RemoveAt(s.X, IF frame.d < Len(s.X) THEN frame.d ELSE Len(s.X) - 1)
               IN frame' = [frame EXCEPT !.s = [s EXCEPT !.T = s.T \o x.rest, !.X = <<>>],
                                         !.pc = "idle"]
          ELSE IF Len(s.T) = 0
               THEN frame' = [frame EXCEPT !.pc = "panic", !.err = "panic"]
               ELSE \E ti \in 0..(Len(s.T) - 1) :
                       LET x == RemoveAt(s.T, ti)
                       IN frame' = [frame EXCEPT !.s = [s EXCEPT !.T = x.rest \o s.X,
                                                                !.X = <<>>],
                                                 !.ti = ti, !.pc = "idle"]
    /\ UNCHANGED <<v, mem, last, offered, copied, ops, accepted, simpleVars, heapVars, streamVars>>

NextSteps ==
    \/ StepCall
    \/ StepPop
    \/ \E f \in Float64Draws : StepUniform(f)
    \/ StepWalk
    \/ StepEvict

SpecSteps == InitSteps /\ [][NextSteps]_vars

\* Every statement of a running Add is eventually executed, and the random
\* source eventually returns a non-zero value.
SpecStepsFair ==
    /\ SpecSteps
    /\ WF_vars(StepPop) /\ WF_vars(StepWalk) /\ WF_vars(StepEvict)
    /\ WF_vars(\E f \in Float64Draws \ {Zero} : StepUniform(f))

\* ------------------------------------------------------------ tdigest Stream

\* What the stream is offered, and what digest.Probability may return for it.
StreamValues == {1, 2}
Probabilities == {One, Fin(1, 2), Fin(1, 3)}

\* A stream whose current window holds one sample of every two values.
InitStream ==
    /\ Constructed([i \in Inst |-> 1])
    /\ SimpleConstructed([k \in Res |-> 1])
    /\ HeapConstructed
    /\ StepConstructed(1)
    /\ \E completeSize \in 1..MaxCompleteSize : StreamConstructed(1, completeSize, 2)

\* Stream.Add(x), with recompute when the current window is full.
StreamAdd ==
    /\ qlast.adds < MaxStreamAdds
    /\ \E x \in StreamValues :
       \E weight \in IF stream.cycle = 0 THEN {One}
                      ELSE {FDiv(One, prob) : prob \in Probabilities} :
       \E draw \in AddDraws(stream.current.sample) :
       \E a \in {CurrentAdd(stream.current, x, weight, draw[1], draw[2])} :
             IF a.err
             THEN /\ stream' = [stream EXCEPT !.current = a.w]
                  /\ qlast' = [qlast EXCEPT !.op = "Add", !.err = "ErrInvalidWeight",
                                            !.adds = qlast.adds + 1]
             ELSE IF ~CurrentFull(a.w)
             THEN /\ stream' = [stream EXCEPT !.current = a.w]
                  /\ qlast' = [qlast EXCEPT !.op = "Add", !.err = "",
                                            !.adds = qlast.adds + 1]
             ELSE \E o \in OfferAll({[w |-> stream.complete, panic |-> FALSE]},
                                    CurrentItems(a.w)) :
                     /\ stream' = [stream EXCEPT !.current = Restart(a.w),
                                                 !.complete = o.w,
                                                 !.cycle = stream.cycle + 1]
                     /\ qlast' = [qlast EXCEPT !.op = "Add",
                                               !.err = IF o.panic THEN "panic" ELSE "",
                                               !.adds = qlast.adds + 1]
    /\ UNCHANGED <<v, mem, last, offered, copied, ops, accepted, simpleVars, heapVars,
                   stepVars>>

\* Stream.Quantile(quantile): flush unless flushed.  What it returns is read
\* from the T-digest's input and is not modelled.
Quantile ==
    /\ qlast.quantiles < MaxQuantiles
    /\ IF stream.flushed
       THEN /\ stream' = stream
            /\ qlast' = [qlast EXCEPT !.op = "Quantile", !.err = "",
                                      !.quantiles = qlast.quantiles + 1]
       ELSE \E o \in OfferAll({[w |-> stream.complete, panic |-> FALSE]},
                              CurrentItems(stream.current)) :
               /\ stream' = [stream EXCEPT !.flushed = TRUE, !.complete = o.w]
               /\ qlast' = [qlast EXCEPT !.op = "Quantile",
                                         !.err = IF o.panic THEN "panic" ELSE "",
                                         !.quantiles = qlast.quantiles + 1]
    /\ UNCHANGED <<v, mem, last, offered, copied, ops, accepted, simpleVars, heapVars,
                   stepVars>>

NextStream ==
    \/ StreamAdd
    \/ Quantile

SpecStream == InitStream /\ [][NextStream]_vars

\* completeWindow.add(value, weight) on its own, with any weight.
WindowAdd ==
    /\ qlast.adds < MaxWindowAdds
    /\ \E value \in StreamValues, weight \in InputWeights :
       \E draw \in AddDraws(stream.complete.sample) :
       \E a \in {CompleteAdd(stream.complete, value, weight, draw[1], draw[2])} :
             /\ stream' = [stream EXCEPT !.complete = a.w]
             /\ qlast' = [qlast EXCEPT !.op = "add",
                                       !.err = IF a.panic THEN "panic"
                                               ELSE IF a.err THEN "ErrInvalidWeight"
                                               ELSE "",
                                       !.adds = qlast.adds + 1]
    /\ UNCHANGED <<v, mem, last, offered, copied, ops, accepted, simpleVars, heapVars,
                   stepVars>>

NextWindow == WindowAdd

SpecWindow == InitStream /\ [][NextWindow]_vars

\* ------------------------------------------------------------------ properties

\* The sum of the weights Get reports over indices i..Size()-1.
RECURSIVE SumGet(_, _)
SumGet(s, i) == IF i >= Size(s) THEN Zero ELSE FAdd(Get(s, i)[2], SumGet(s, i + 1))

\* Sampler i after the step.
ViewAfter(i) == ViewOf(v'[i], mem')

\* The items Get can return.
Retrievable(s) == {Get(s, i)[1] : i \in 0..(Size(s) - 1)}

\* C1: the sample never exceeds the capacity and holds min(TotalCount,
\* Capacity) items, so it holds exactly Capacity items once that many arrived.
CapacityInvariant ==
    \A i \in Inst :
        LET s == View(i)
        IN /\ Size(s) = Len(s.L) + Len(s.T)
           /\ Size(s) <= Capacity(s)
           /\ Size(s) = Min(TotalCount(s), Capacity(s))
           /\ (TotalCount(s) >= Capacity(s) => Size(s) = Capacity(s))

\* A full sampler that has evicted at least twice.
CapacityWitness ==
    /\ TotalCount(View(1)) >= Capacity(View(1)) + 2
    /\ Size(View(1)) = Capacity(View(1))

\* C2: the weights Get reports (exact weights of L, tau for each item of T)
\* add up to TotalWeight, in exact arithmetic.
WeightSumPreserved ==
    \A i \in Inst : last.err # "panic" => SumGet(View(i), 0) = TotalWeight(View(i))

\* A sampler after two evictions whose threshold is not a whole number.
WeightSumWitness ==
    /\ Len(View(1).T) > 0
    /\ Tau(View(1)).d > 1
    /\ TotalCount(View(1)) >= Capacity(View(1)) + 2

\* C3: an Add with weight NaN, 0 or negative returns ErrInvalidWeight and
\* changes neither the counters nor the sample nor tau nor L, T, X.
RejectedAddIsNoOp ==
    [][(last'.op = "Add" /\ last'.weight \in {NaN, Zero, FromInt(-1)})
          => /\ last'.err = "ErrInvalidWeight"
             /\ last'.eject = NoItem
             /\ ViewAfter(last'.inst) = View(last'.inst)
             /\ v' = v /\ mem' = mem]_vars

\* NaN is refused by a sampler that is full and has light items.
RejectedAddWitness ==
    /\ last.op = "Add" /\ last.weight = NaN /\ last.err = "ErrInvalidWeight"
    /\ Len(View(1).T) > 0
    /\ TotalCount(View(1)) > Capacity(View(1))

GetReportsWeights ==
    \A i \in Inst :
        LET s == View(i)
        IN \A n \in 0..(Size(s) - 1) :
              IF n < Len(s.L)
              THEN /\ Get(s, n)[1] = At(s.L, n).sample
                   /\ Get(s, n)[2] = offered[Get(s, n)[1]]
              ELSE /\ Get(s, n)[1] = At(s.T, n - Len(s.L)).sample
                   /\ Get(s, n)[2] = Tau(s)

\* Both kinds of index exist, and a light item's own weight is below tau.
GetWitness ==
    /\ Len(View(1).L) > 0
    /\ Len(View(1).T) > 0
    /\ \E n \in 1..Len(View(1).T) : FLt(View(1).T[n].weight, Tau(View(1)))

\* C6 as stated: a steady-state Add returns one evicted item, which is not
\* the item just added and is no longer retrievable through Get.
EvictedIsNotTheNewItem ==
    [][(last'.op = "Add" /\ last'.err = "" /\ Size(View(last'.inst)) = Capacity(View(last'.inst)))
          => /\ last'.eject # NoItem
             /\ last'.eject # last'.item
             /\ last'.eject \notin Retrievable(ViewAfter(last'.inst))]_vars

\* C6 as amended: a steady-state Add returns one evicted item, which was
\* retrievable before the call or is the item just added, and which is no
\* longer retrievable through Get; every other such item is retrievable.
EvictionHandback ==
    [][(last'.op = "Add" /\ last'.err = "" /\ Size(View(last'.inst)) = Capacity(View(last'.inst)))
          => /\ last'.eject # NoItem
             /\ last'.eject \in Retrievable(View(last'.inst)) \cup {last'.item}
             /\ Retrievable(ViewAfter(last'.inst)) =
                   (Retrievable(View(last'.inst)) \cup {last'.item}) \ {last'.eject}]_vars

\* A steady-state Add that handed back an item drawn from T.
EvictionWitness ==
    /\ last.op = "Add" /\ last.err = ""
    /\ last.eject # NoItem /\ last.eject # last.item
    /\ offered[last.eject] # last.weight
    /\ Len(View(last.inst).T) > 0

\* C8: Reset leaves the sampler as New(capacity) builds it: no items, tau and
\* the counters zero, the capacity kept.
ResetGivesFreshSampler ==
    [][last'.op = "Reset"
          => LET s == ViewAfter(last'.inst)
             IN /\ Size(s) = 0 /\ TotalCount(s) = 0
                /\ TotalWeight(s) = Zero /\ Tau(s) = Zero
                /\ s.L = <<>> /\ s.T = <<>> /\ s.X = <<>>
                /\ Capacity(s) = Capacity(View(last'.inst))
                /\ s = New(Capacity(View(last'.inst)))]_vars

\* The first Reset, of a sampler that held light items (its arrays still do).
ResetWitness ==
    /\ last.op = "Reset" /\ ops = 1
    /\ Len(mem[v[1].T.arr]) > 0
    /\ Size(View(1)) = 0

\* C9: right after dst.CopyFrom(src), with src past its capacity, dst has
\* src's Size, TotalCount, TotalWeight and Tau and Get(i) agrees for every i.
CopyFromFidelity ==
    (last.op = "CopyFrom" /\ TotalCount(View(last.from)) > Capacity(View(last.from)))
       => LET d == View(last.inst)
              s == View(last.from)
          IN /\ Size(d) = Size(s)
             /\ TotalCount(d) = TotalCount(s)
             /\ TotalWeight(d) = TotalWeight(s)
             /\ Tau(d) = Tau(s)
             /\ \A n \in 0..(Size(s) - 1) : Get(d, n) = Get(s, n)

\* A copy of a sampler past its capacity that holds large and light items.
CopyFromWitness ==
    /\ last.op = "CopyFrom"
    /\ TotalCount(View(last.from)) > Capacity(View(last.from))
    /\ Len(View(last.inst).L) > 0
    /\ Len(View(last.inst).T) > 0

\* C10: once a CopyFrom has been made, a call on one sampler leaves the other
\* sampler's counters, tau and sample as they were.
CopyIsDeep ==
    [][copied' # 0
          => \A i \in Inst : i # last'.inst => ViewAfter(i) = View(i)]_vars

\* After a copy, the source took a steady-state Add while the copy held items.
CopyIsDeepWitness ==
    /\ copied # 0
    /\ last.op = "Add" /\ last.err = "" /\ last.inst # copied
    /\ last.eject # NoItem
    /\ Size(View(copied)) > 0

\* The sum of a sequence of weights, added in order as Add does.
RECURSIVE SumWeights(_)
SumWeights(ws) ==
    IF ws = <<>> THEN Zero
    ELSE FAdd(SumWeights(SubSeq(ws, 1, Len(ws) - 1)), ws[Len(ws)])

\* C11: TotalCount is the number of Adds accepted since the last Reset and
\* TotalWeight the sum of their weights, evicted items included.
CountersCountAccepted ==
    \A i \in Inst :
        /\ TotalCount(View(i)) = Len(accepted[i])
        /\ TotalWeight(View(i)) = SumWeights(accepted[i])

\* C11: an accepted Add raises TotalCount by 1 and TotalWeight by the weight
\* given, so neither decreases across an Add; a rejected Add changes neither.
CountersStep ==
    [][last'.op = "Add"
          => LET s == View(last'.inst)
                 t == ViewAfter(last'.inst)
             IN IF last'.err = "ErrInvalidWeight"
                THEN TotalCount(t) = TotalCount(s) /\ TotalWeight(t) = TotalWeight(s)
                ELSE /\ TotalCount(t) = TotalCount(s) + 1
                     /\ TotalWeight(t) = FAdd(TotalWeight(s), last'.weight)
                     /\ TotalCount(t) >= TotalCount(s)
                     /\ FGe(TotalWeight(t), TotalWeight(s))]_vars

\* C11, both parts.
CountersInvariant == []CountersCountAccepted /\ CountersStep

\* After a Reset, the sampler accepted more items than it holds.
CountersWitness ==
    /\ ops >= 1
    /\ Len(accepted[1]) > Size(View(1))
    /\ Len(accepted[1]) < Len(offered)

\* C12: GetOriginalWeight(i) is the weight that was passed to Add with the
\* item Get(i) returns, for items of L and of T alike.
OriginalWeightKept ==
    \A i \in Inst :
        LET s == View(i)
        IN \A n \in 0..(Size(s) - 1) :
              GetOriginalWeight(s, n) = offered[Get(s, n)[1]]

\* Two Adds after a light item was offered it is still held, reported at a
\* tau that is not its own weight.
OriginalWeightWitness ==
    LET s == View(1)
    IN \E n \in Len(s.L)..(Size(s) - 1) :
          /\ Get(s, n)[2] # GetOriginalWeight(s, n)
          /\ Get(s, n)[1] + 2 <= Len(offered)

\* The entries of a slice, as a set.
Entries(l) == {l[n] : n \in 1..Len(l)}

\* C13: an accepted Add on a sampler with Size < Capacity puts the item into
\* L and evicts and returns nothing; Size grows by 1, T stays empty, tau stays
\* 0 and every Get(i) reports the weight its item was offered with.
FillingPhase ==
    [][(last'.op = "Add" /\ last'.err # "ErrInvalidWeight"
          /\ Size(View(last'.inst)) < Capacity(View(last'.inst)))
          => LET s == View(last'.inst)
                 t == ViewAfter(last'.inst)
             IN /\ last'.err = "" /\ last'.eject = NoItem
                /\ Len(t.L) = Len(s.L) + 1
                /\ Entries(t.L) = Entries(s.L)
                                     \cup {[sample |-> last'.item, weight |-> last'.weight]}
                /\ Size(t) = Size(s) + 1
                /\ s.T = <<>> /\ t.T = <<>> /\ t.X = <<>>
                /\ Tau(s) = Zero /\ Tau(t) = Zero
                /\ \A n \in 0..(Size(t) - 1) : Get(t, n)[2] = offered'[Get(t, n)[1]]]_vars

\* The second filling Add of a sampler that was Reset while it held items.
FillingWitness ==
    /\ last.op = "Add" /\ last.err = "" /\ last.eject = NoItem
    /\ ops >= 1
    /\ Len(accepted[1]) < Len(offered)
    /\ Size(View(1)) = 2 /\ TotalCount(View(1)) = 2

FMin(a, b) == IF FLt(b, a) THEN b ELSE a

\* C14: when a sampler that has just been filled (so that it holds every
\* item offered, each with probability 1) accepts one more item, each item
\* offered so far is retained with probability min(1, weight/tau), tau being
\* the threshold after that Add.
InclusionProbability ==
    LET s == View(1)
    IN (Size(s) = Capacity(s) /\ TotalCount(s) = Capacity(s))
          => \A weight \in ValidWeights :
                LET individual == [sample |-> Len(offered) + 1, weight |-> weight]
                    tau == Rebalance(s, individual).tau
                IN \A x \in Entries(s.L) \cup {individual} :
                      FSub(One, PrRemoved(s, individual.sample, weight, x.sample))
                         = FMin(One, FDiv(x.weight, tau))

\* C15: a reservoir holds min(Count(), capacity) items.
SimpleSizeInvariant ==
    \A k \in Res :
        SimpleSize(simple[k]) = Min(SimpleCount(simple[k]), simple[k].capacity)

\* A full reservoir whose last Add replaced an item.
SimpleSizeWitness ==
    /\ slast.res # 0
    /\ SimpleCount(simple[slast.res]) > simple[slast.res].capacity
    /\ \E n \in 0..(SimpleSize(simple[slast.res]) - 1) :
          SimpleGet(simple[slast.res], n) = slast.item

\* C16: an Add on a reservoir increments observed; below capacity it appends
\* the item; at capacity it draws an index in [0, observed), observed counting
\* the new item, and overwrites that slot iff the index is below capacity,
\* else leaves the buffer as it was.
SimpleAddStep ==
    [][simple' # simple
          => LET k == slast'.res
                 s == simple[k]
                 t == simple'[k]
                 item == slast'.item
                 index == slast'.index
             IN /\ \A j \in Res \ {k} : simple'[j] = simple[j]
                /\ t.observed = s.observed + 1
                /\ t.capacity = s.capacity
                /\ IF SimpleSize(s) < s.capacity
                   THEN t.buffer = Append(s.buffer, item)
                   ELSE /\ index \in 0..(t.observed - 1)
                        /\ IF index < s.capacity
                           THEN t.buffer = [s.buffer EXCEPT ![index + 1] = item]
                           ELSE /\ t.buffer = s.buffer
                                /\ item \notin Entries(t.buffer)]_vars

\* The largest index was drawn, beyond the capacity: the item was discarded.
SimpleAddWitness ==
    /\ slast.res # 0
    /\ slast.index = SimpleCount(simple[slast.res]) - 1
    /\ slast.index >= simple[slast.res].capacity
    /\ slast.item \notin Entries(simple[slast.res].buffer)

\* What reservoir k has contributed to sampler 1 so far.
Reoffered(k) ==
    IF pos[k] = 0 THEN Zero
    ELSE FMul(FromInt(pos[k]), Fin(SimpleCount(simple[k]), SimpleSize(simple[k])))

RECURSIVE SumOver(_, _)
SumOver(S, f) ==
    IF S = {} THEN 0
    ELSE LET k == CHOOSE x \in S : TRUE IN f[k] + SumOver(S \ {k}, f)

Count(l, x) == Cardinality({n \in 1..Len(l) : l[n] = x})

\* C18: a pop of the large-item heap removes one item whose weight is the
\* least of the weights held and returns it; the reference heap returns the
\* same weight, and the two heaps hold as many items, so that popping until
\* the reference is empty empties the large-item heap.
HeapPopsMinimum ==
    [][hlast'.op = "pop"
          => /\ \A x \in Entries(heapL) : FLe(hlast'.l, x.weight)
             /\ \E x \in Entries(heapL) :
                   /\ x.weight = hlast'.l
                   /\ Count(heapL', x) = Count(heapL, x) - 1
                   /\ \A y \in Entries(heapL) \ {x} : Count(heapL', y) = Count(heapL, y)
             /\ Len(heapL') = Len(heapL) - 1
             /\ hlast'.l = hlast'.s
             /\ Len(heapL') = Len(heapS')
             /\ (heapS' = <<>> => Len(heapL') = 0)]_vars

\* A pop from a full heap that is not in sorted order and holds one weight
\* twice.
HeapWitness ==
    /\ hlast.op = "pop"
    /\ Len(heapL) = MaxHeap - 1
    /\ \E n \in 1..(Len(heapL) - 1) : FGt(heapL[n].weight, heapL[n + 1].weight)
    /\ \E n \in 1..Len(heapL) : \E m \in 1..Len(heapL) : n # m /\ heapL[n] = heapL[m]

\* C19: a call of Capacity, Size, TotalCount, TotalWeight, Tau, Get or
\* GetOriginalWeight leaves capacity, L, T, X, tau, totalCount and totalWeight
\* of every sampler, and the arrays behind the slices, as they were.
AccessorsArePure ==
    [][last'.op \in Accessors
          => /\ \A i \in Inst : ViewAfter(i) = View(i)
             /\ v' = v
             /\ mem' = mem]_vars

\* Get was called on a light item of a sampler that holds large ones too.
AccessorsWitness ==
    /\ last.op = "Get"
    /\ Len(View(1).L) > 0
    /\ last.weight = Tau(View(1))
    /\ \E n \in 1..Len(View(1).T) :
          View(1).T[n].sample = last.item /\ View(1).T[n].weight # last.weight

\* C20: Capacity() returns in every reachable state what it returned after
\* construction: no Add, Reset or CopyFrom changes it.
CapacityImmutable ==
    \A i \in Inst : \A c \in 1..MaxCap :
        (Capacity(View(i)) = c) => [](Capacity(View(i)) = c)

\* A sampler that was the receiver of a CopyFrom, then Reset, then added to.
CapacityImmutableWitness ==
    /\ copied # 0
    /\ ops >= 2
    /\ last.op = "Add" /\ last.inst = copied
    /\ Len(accepted[copied]) = 1

UniformDraws == {uniform(fs) : fs \in FloatRuns}

\* r less the decrements (1 - X[d].weight/tau) of the items X[0..k].
RECURSIVE Decremented(_, _, _, _)
Decremented(X, tau, r, k) ==
    IF k < 0 THEN r
    ELSE FSub(Decremented(X, tau, r, k - 1), FSub(One, FDiv(At(X, k).weight, tau)))

\* The indices k of X at which r first becomes negative (one or none).
FirstNegative(X, tau, r) ==
    {k \in 0..(Len(X) - 1) :
        /\ FLt(Decremented(X, tau, r, k), Zero)
        /\ \A j \in 0..(k - 1) : ~FLt(Decremented(X, tau, r, j), Zero)}

\* l without its entry at index k.
Without(l, k) == SubSeq(l, 1, k) \o SubSeq(l, k + 2, Len(l))

\* C22: in a steady-state Add, when the walk over X makes r negative first
\* at index k, the item evicted is X[k], T is left alone and every other
\* item of X is appended to T.
WalkEvictsSelected ==
    LET s == View(1)
    IN Size(s) = Capacity(s)
          => \A weight \in ValidWeights : \A r \in UniformDraws :
                LET sample == Len(offered) + 1
                    b == Rebalance(s, [sample |-> sample, weight |-> weight])
                    res == VaroptAdd(s, sample, weight, r, 0)
                IN \A k \in FirstNegative(b.X, b.tau, r) :
                      /\ res.removed = At(b.X, k).sample
                      /\ Len(res.s.T) = Len(s.T) + Len(b.X) - 1
                      /\ SubSeq(res.s.T, 1, Len(s.T)) = s.T
                      /\ Entries(SubSeq(res.s.T, Len(s.T) + 1, Len(res.s.T)))
                            = Entries(Without(b.X, k))

DecrementOf(w, tau) == FSub(One, FDiv(w, tau))

\* The sum of the decrements of the items X[d..].
RECURSIVE SumDecrements(_, _, _)
SumDecrements(X, tau, d) ==
    IF d >= Len(X) THEN Zero
    ELSE FAdd(DecrementOf(At(X, d).weight, tau), SumDecrements(X, tau, d + 1))

XWithinCapacity ==
    LET s == View(1)
    IN Size(s) >= Capacity(s)
          => \A weight \in ValidWeights :
                Len(Rebalance(s, [sample |-> Len(offered) + 1, weight |-> weight]).X)
                   <= Capacity(s)

\* C25 as amended: X never holds more than capacity + 1 items during an Add,
\* and it holds none while the sampler is filling.
XWithinCapacityPlusOne ==
    LET s == View(1)
    IN /\ s.X = <<>>
       /\ Size(s) >= Capacity(s)
             => \A weight \in ValidWeights :
                   Len(Rebalance(s, [sample |-> Len(offered) + 1, weight |-> weight]).X)
                      <= Capacity(s) + 1

\* A sampler of capacity 2 for which some Add moves all three items into X.
XBoundWitness ==
    LET s == View(1)
    IN /\ Size(s) = Capacity(s) /\ Capacity(s) = 2
       /\ \E weight \in ValidWeights :
             Len(Rebalance(s, [sample |-> Len(offered) + 1, weight |-> weight]).X) = 3

\* C26: between calls, and so on entry to and on exit from every Add, X is
\* empty.
XEmptyBetweenAdds ==
    \A i \in Inst : last.err # "panic" => View(i).X = <<>> /\ v[i].X.len = 0

\* C26: every Add, accepted or rejected, filling or steady-state, starts and
\* ends with X empty.
XEmptyAcrossAdd ==
    [][last'.op = "Add" /\ last'.err # "panic"
          => View(last'.inst).X = <<>> /\ ViewAfter(last'.inst).X = <<>>]_vars

\* C26, both parts.
XEmpty == []XEmptyBetweenAdds /\ XEmptyAcrossAdd

\* A steady-state Add that moved its item through X into T.
XEmptyWitness ==
    /\ last.op = "Add" /\ last.err = "" /\ last.eject # NoItem
    /\ \E n \in 1..Len(View(1).T) : View(1).T[n].sample = last.item
    /\ TotalCount(View(1)) >= Capacity(View(1)) + 2
    /\ View(1).X = <<>>

Retained(s) == s.L \o s.T

\* Every retained item was offered with the weight it is stored with, and no
\* item is retained twice.
RetainedWereOffered ==
    \A i \in Inst :
        LET kept == Retained(View(i))
        IN /\ \A n \in 1..Len(kept) :
                 /\ kept[n].sample \in 1..Len(offered)
                 /\ kept[n].weight = offered[kept[n].sample]
           /\ \A m, n \in 1..Len(kept) : kept[m].sample = kept[n].sample => m = n

\* An accepted Add keeps every item it does not remove: while filling it
\* removes none, in steady state it removes exactly one of the retained items
\* and the new one.
OneItemLeaves ==
    [][last'.op = "Add" /\ last'.err = ""
          => LET before == Retained(View(last'.inst))
                 after == Retained(ViewAfter(last'.inst))
                 new == [sample |-> last'.item, weight |-> last'.weight]
                 pool == Entries(before) \cup {new}
             IN /\ new \notin Entries(before)
                /\ Entries(after) \subseteq pool
                /\ IF Size(View(last'.inst)) < Capacity(View(last'.inst))
                   THEN Len(after) = Len(before) + 1 /\ Entries(after) = pool
                   ELSE /\ Len(after) = Len(before)
                        /\ Cardinality(pool \ Entries(after)) = 1]_vars

\* C29: the retained items (L together with T) are a sub-multiset of the
\* items offered with no item twice, and each steady-state Add removes exactly
\* one item of the previously retained items plus the new item and keeps all
\* the others.
ItemConservation == []RetainedWereOffered /\ OneItemLeaves

\* A steady-state Add, not the first, that removed an earlier item and kept
\* the new one, leaving two items in T.
ItemConservationWitness ==
    LET s == View(1)
    IN /\ last.op = "Add" /\ last.err = "" /\ last.inst = 1
       /\ last.eject # NoItem /\ last.eject # last.item
       /\ Len(accepted[1]) >= Capacity(s) + 2
       /\ Len(s.T) = 2
       /\ \E n \in 1..Len(Retained(s)) : Retained(s)[n].sample = last.item

\* currentWindow.get: freq := weight / v.sample.GetOriginalWeight(i), which
\* panics when freq is NaN.
Frequency(s, i) == FDiv(Get(s, i)[2], GetOriginalWeight(s, i))

DrawIsPositive ==
    frame.pc \in {"walk", "evict"}
       => FGt(frame.r0, Zero) /\ FLt(frame.r0, One)

\* The pop loop has run at most once per item L held when it started, and the
\* walk at most once per item of X.
LoopsAreBounded ==
    /\ frame.pops <= frame.lenL
    /\ frame.pc \in {"pop", "uniform", "walk", "evict"}
          => frame.pops + Len(frame.s.L) = frame.lenL
    /\ frame.pc \in {"walk", "evict"}
          => frame.walks = frame.d /\ frame.walks <= Len(frame.s.X)

\* A steady-state Add that returns leaves what VaroptAdd computes from the
\* sampler it started on and the value uniform() returned.
StepsAgree ==
    [][frame.pc = "evict" /\ frame'.pc = "idle"
          => frame'.s = VaroptAdd(frame.start, frame.sample, frame.weight,
                                  frame.r0, frame'.ti).s]_vars

\* A running Add returns.
AddTerminates == (frame.pc # "idle") ~> (frame.pc = "idle")

\* C31: the uniform value the eviction walk uses is never 0 (a draw of 0 is
\* discarded and drawn again), and every Add returns provided the random
\* source eventually yields a non-zero value; the pop loop runs at most |L|
\* times and the walk at most |X| times.
PositiveDrawAndTermination ==
    /\ [](DrawIsPositive /\ LoopsAreBounded)
    /\ StepsAgree
    /\ AddTerminates

\* An Add that discarded a draw of 0, popped an item and walked over two
\* items has returned.
TerminationWitness ==
    /\ frame.pc = "idle" /\ frame.err = ""
    /\ frame.zeros >= 1
    /\ frame.pops >= 1
    /\ frame.walks >= 2
    /\ frame.calls > Capacity(frame.s) + 1

\* C34: once Quantile has been called on a stream (flushed is set), a later
\* Stream.Add does not add its value to the current sampler.
AddAfterQuantilePrevented ==
    [][qlast'.op = "Add" /\ stream.flushed
          => /\ stream'.current.sample = stream.current.sample
             /\ TotalCount(stream'.current.sample) = TotalCount(stream.current.sample)
             /\ qlast'.err # ""]_vars

\* C35: after every completeWindow.add, accepted or rejected,
\* len(freelist) + sample.Size() is sampleSize + 1: add finds a slot on the
\* free list whenever it takes one, and no slot is both on the free list and
\* referenced by a retained sample.
FreeListConservation ==
    LET cw == stream.complete
        held == {Get(cw.sample, i)[1] : i \in 0..(Size(cw.sample) - 1)}
        free == Entries(cw.freelist)
    IN /\ qlast.err # "panic"
       /\ Len(cw.freelist) + Size(cw.sample) = Capacity(cw.sample) + 1
       /\ Len(cw.freelist) >= 1
       /\ free \cap held = {}
       /\ Cardinality(free) = Len(cw.freelist)
       /\ Cardinality(held) = Size(cw.sample)
       /\ free \cup held = 1..(Capacity(cw.sample) + 1)

\* A full complete window that has evicted an item, put a slot other than the
\* spare one on the free list, and then refused a weight.
FreeListWitness ==
    LET cw == stream.complete
    IN /\ qlast.op = "add" /\ qlast.err = "ErrInvalidWeight"
       /\ Size(cw.sample) = Capacity(cw.sample)
       /\ TotalCount(cw.sample) >= Capacity(cw.sample) + 1
       /\ Capacity(cw.sample) = MaxCompleteSize
       /\ cw.freelist # <<Capacity(cw.sample) + 1>>

\* The weight at every index j >= 1 is at least the weight at its parent.
HeapOrdered(l) ==
    \A j \in 1..(Len(l) - 1) : FLe(At(l, GoDiv(j - 1, 2)).weight, At(l, j).weight)

\* C32: after any sequence of pushes and pops on the large-item heap, the
\* weight at the parent index (j-1)/2 is at most the weight at j for every
\* index j >= 1, so slot 0 holds an item of the least weight.
HeapOrderInvariant ==
    /\ HeapOrdered(heapL)
    /\ Len(heapL) > 0 => \A x \in Entries(heapL) : FLe(At(heapL, 0).weight, x.weight)

\* A full heap, not in sorted order, whose last push rose from the last slot
\* to the root.
HeapOrderWitness ==
    /\ hlast.op = "push"
    /\ Len(heapL) = MaxHeap
    /\ At(heapL, 0).weight = hlast.l
    /\ FGt(At(heapL, MaxHeap - 1).weight, hlast.l)
    /\ \A j \in 1..(MaxHeap - 1) : FGt(At(heapL, j).weight, hlast.l)
    /\ \E n \in 1..(Len(heapL) - 1) : FGt(heapL[n].weight, heapL[n + 1].weight)

\* The items reservoir k has been offered.
SimpleOffered(k) == {ItemOf(k, n) : n \in 1..SimpleCount(simple[k])}

\* Every item of the buffer was offered to the reservoir and is there once.
BufferWasOffered ==
    \A k \in Res :
        LET buffer == simple[k].buffer
        IN /\ Entries(buffer) \subseteq SimpleOffered(k)
           /\ \A m, n \in 1..Len(buffer) : buffer[m] = buffer[n] => m = n

\* An item offered earlier that the buffer does not hold does not come back.
OverwrittenStaysOut ==
    [][\A k \in Res :
          \A item \in SimpleOffered(k) \ Entries(simple[k].buffer) :
             item \notin Entries(simple'[k].buffer)]_vars

\* C33: after any sequence of Simple.Add calls the buffer is a sub-multiset
\* of the items offered, each offered item is in it at most once, and an item
\* overwritten by a replacement never reappears.
ReservoirContents == []BufferWasOffered /\ OverwrittenStaysOut

\* A reservoir of capacity 1 that replaced its first item by the second and
\* then dropped the third: the first item has stayed out over an Add.
ReservoirContentsWitness ==
    \E k \in Res :
        /\ simple[k].capacity = 1
        /\ SimpleCount(simple[k]) = 3
        /\ simple[k].buffer = <<ItemOf(k, 2)>>
        /\ slast.res = k /\ slast.item = ItemOf(k, 3)

\* The items of a sequence, each with the number of times it occurs.
BagOfSeq(l) == [x \in Entries(l) |-> Count(l, x)]

\* C36: each push adds exactly the pushed item and each pop removes exactly
\* the item it returns: the heap holds the items pushed and not yet popped,
\* each as many times, and its length is the pushes less the pops.
HeapElementConservation ==
    /\ BagOfSeq(heapL) = hlast.held
    /\ Len(heapL) = hlast.net
    /\ BagCardinality(hlast.held) = hlast.net

\* After a pop, a heap that holds one item twice and another once, one of
\* them equal to the item popped.
HeapConservationWitness ==
    /\ hlast.op = "pop"
    /\ hlast.net = 3
    /\ \E x \in BagToSet(hlast.held) : CopiesIn(x, hlast.held) = 2
    /\ Cardinality(BagToSet(hlast.held)) = 2
    /\ \E x \in BagToSet(hlast.held) : x.weight = hlast.l

=============================================================================
